---- MODULE Spec2Model ----
(***************************************************************************)
(* A model of cursor-init (src/src/cursor_init/main.py): the registry      *)
(* merge of get_registry, the content resolution of install and show, and  *)
(* the overwrite protocol of write_cursorrules.                            *)
(*                                                                         *)
(* Python values are modelled as follows.                                  *)
(*   - a str that is only compared (a key, a name, a URL) is a TLA+ string *)
(*   - a str that is written to the file (template content, a response     *)
(*     body) is a sequence of one-character strings, so that prefixes and  *)
(*     concatenations of it can be told apart from it                      *)
(*   - a dict is a function whose DOMAIN is the dict's key set, so that    *)
(*     Python's `k in d` is k \in DOMAIN d                                 *)
(*   - a decoded JSON value is a record tagged by its "type"               *)
(*   - an optional command line argument is [given |-> FALSE] or           *)
(*     [given |-> TRUE, val |-> s]                                         *)
(***************************************************************************)
EXTENDS Naturals, Sequences, FiniteSets, TLC

VARIABLES
    TEMPLATES,      \* templates.py: the module-level local catalog
    file,           \* ./.cursorrules: [exists |-> BOOLEAN, data |-> chars]
    pc,             \* position of the running command; "idle"/"done" between commands
    cmd,            \* the arguments of the running (or last) command
    response,       \* what the registry GET produced in this invocation
    all_templates,  \* local variable all_templates of install/list/show
    content,        \* local variable content of install/show
    exit_code,      \* the process exit status of the last finished command
    raised,         \* the exception that ended the command ("none": returned)
    download,       \* what the content GET produced in this invocation
    trace,          \* the network calls, prompts and writes of this invocation
    file_before     \* the target file when the invocation started

vars == <<TEMPLATES, file, pc, cmd, response, all_templates, content,
          exit_code, raised, download, trace, file_before>>

----------------------------------------------------------------------------
(* Bounds of the model *)

\* longest response body of a content download
MaxBody == 2

\* longest prior contents of the target file in the initial state
MaxOld == 1

----------------------------------------------------------------------------
(* Python dict operations *)

EmptyDict == [k \in {} |-> {}]

\* d[key] = value on a copy of d
dict_set(d, key, value) ==
    [k \in DOMAIN d \cup {key} |-> IF k = key THEN value ELSE d[k]]

\* Mutant of dict_merge: an entry of d survives a collision
dict_merge_keep_existing(d, other) ==
    [k \in DOMAIN d \cup DOMAIN other |->
        IF k \in DOMAIN d THEN d[k] ELSE other[k]]

\* dict.update(other) for a dict operand: every key of other is inserted or
\* overwritten, every other key of d is kept
dict_merge(d, other) ==
    [k \in DOMAIN d \cup DOMAIN other |->
        IF k \in DOMAIN other THEN other[k] ELSE d[k]]

----------------------------------------------------------------------------
(* Decoded JSON values (the result of response.json()) *)

JNull == [type |-> "null"]
JNumber == [type |-> "number"]
JStr(chars) == [type |-> "str", chars |-> chars]
JList(items) == [type |-> "list", items |-> items]
JDict(map) == [type |-> "dict", map |-> map]

\* The one-character strings Python yields when it iterates over a str
RECURSIVE CharItems(_)
CharItems(chars) ==
    IF chars = <<>> THEN <<>>
    ELSE <<JStr(<<Head(chars)>>)>> \o CharItems(Tail(chars))

\* dict.update(iterable): the elements are taken in order and each must be a
\* sequence of length 2, which is inserted as key and value.  A non-iterable
\* element raises TypeError, an element of another length raises ValueError;
\* the insertions made before the exception stay in the dict.  A JSON list
\* [key, value] of length 2 is modelled as the items <<key, value>> with key a
\* string; strings of length 2 do not occur among the modelled payloads.
RECURSIVE update_from_items(_, _)
update_from_items(d, items) ==
    IF items = <<>> THEN [raised |-> "none", dict |-> d]
    ELSE LET e == Head(items) IN
         CASE e.type \in {"null", "number"} ->
                 [raised |-> "TypeError", dict |-> d]
           [] e.type = "str" /\ Len(e.chars) # 2 ->
                 [raised |-> "ValueError", dict |-> d]
           [] e.type = "list" /\ Len(e.items) # 2 ->
                 [raised |-> "ValueError", dict |-> d]
           [] e.type = "list" /\ Len(e.items) = 2 ->
                 update_from_items(dict_set(d, e.items[1], e.items[2]),
                                   Tail(items))

\* all_templates.update(remote_templates) for any decoded JSON operand; the
\* result is the exception raised (or "none") and the dict as it then is
dict_update(d, other) ==
    CASE other.type = "dict" -> [raised |-> "none", dict |-> dict_merge(d, other.map)]
      [] other.type \in {"null", "number"} -> [raised |-> "TypeError", dict |-> d]
      [] other.type = "str" -> update_from_items(d, CharItems(other.chars))
      [] other.type = "list" -> update_from_items(d, other.items)

----------------------------------------------------------------------------
(* get_registry *)

\* The exceptions get_registry catches (requests.RequestException,
\* ValueError, KeyError)
RegistryCaught == {"RequestException", "ValueError", "KeyError"}

\* What requests.get, raise_for_status and response.json() raise for each
\* kind of outcome of the registry GET
registry_fetch_raises(resp) ==
    CASE resp.kind \in {"timeout", "connection"} -> "RequestException"
      [] resp.kind = "http_error" -> "RequestException"
      [] resp.kind = "bad_json" -> "ValueError"
      [] resp.kind = "json" -> "none"

\* get_registry() with TEMPLATES = local and the GET answered by resp:
\* [raised |-> the exception that escapes or "none", dict |-> the value
\* returned]
get_registry(local, resp) ==
    LET all0 == local   \* TEMPLATES.copy()
        fetch == registry_fetch_raises(resp)
    IN  IF fetch # "none"
        THEN IF fetch \in RegistryCaught
             THEN [raised |-> "none", dict |-> all0]
             ELSE [raised |-> fetch, dict |-> all0]
        ELSE LET data == resp.data IN
             IF data.type = "dict" /\ "templates" \in DOMAIN data.map
             THEN LET u == dict_update(all0, data.map["templates"]) IN
                  IF u.raised \in RegistryCaught
                  THEN [raised |-> "none", dict |-> u.dict]
                  ELSE u
             ELSE [raised |-> "none", dict |-> all0]

----------------------------------------------------------------------------
(* download_from_url and write_cursorrules *)

\* Mutant of download_from_url: a failed GET is swallowed and yields no text
download_from_url_swallow(outcome) ==
    IF outcome.ok
    THEN [raised |-> "none", text |-> outcome.body]
    ELSE [raised |-> "none", text |-> <<>>]

\* download_from_url(url) with the GET answered by outcome: requests.get or
\* raise_for_status raise a RequestException, or response.text is returned
download_from_url(outcome) ==
    IF outcome.ok
    THEN [raised |-> "none", text |-> outcome.body]
    ELSE [raised |-> "RequestException", text |-> <<>>]

\* Mutant of confirm: an empty answer counts as yes
confirm_empty_is_yes(answer, default) ==
    IF answer = "" THEN TRUE ELSE answer = "y"

\* typer.confirm(..., default): an empty answer takes the default
confirm(answer, default) ==
    IF answer = "" THEN default ELSE answer = "y"

\* Mutant of write_text: the file is opened for appending
write_text_append(cur, text, io) ==
    IF io.ok
    THEN [raised |-> "none",
          file |-> [exists |-> TRUE, data |-> cur.data \o text]]
    ELSE [raised |-> "OSError", file |-> cur]

\* Path.write_text(content) on the target: open for writing (which creates or
\* truncates the file), write, close.  io says whether an OSError is raised
\* and where: at the open (nothing touched) or after `written` characters.
write_text(cur, text, io) ==
    IF io.ok THEN [raised |-> "none", file |-> [exists |-> TRUE, data |-> text]]
    ELSE IF io.stage = "open"
         THEN [raised |-> "OSError", file |-> cur]
         ELSE [raised |-> "OSError",
               file |-> [exists |-> TRUE, data |-> SubSeq(text, 1, io.written)]]

\* The trace entry of the overwrite prompt answered with answer
PromptEvent(answer) ==
    CASE answer = "y" -> "prompt_y"
      [] answer = "n" -> "prompt_n"
      [] answer = "" -> "prompt_empty"

Prompts == {"prompt_y", "prompt_n", "prompt_empty"}

\* write_cursorrules(content, force) with the target file being cur, the
\* user's answer to the prompt (if it is shown) and the outcome io of the
\* write: the file afterwards, whether typer.Exit was raised and with which
\* code, and the events in order (the prompt with its answer, the write_text
\* call, the OSError it raised)
write_cursorrules(text, force, cur, answer, io) ==
    LET asked == IF cur.exists /\ ~force THEN <<PromptEvent(answer)>> ELSE <<>>
    IN  IF cur.exists /\ ~force /\ ~confirm(answer, FALSE)
        THEN [file |-> cur, raised |-> "Exit", code |-> 0, events |-> asked]
        ELSE LET w == write_text(cur, text, io) IN
             IF w.raised = "OSError"
             THEN [file |-> w.file, raised |-> "Exit", code |-> 1,
                   events |-> asked \o <<"write", "OSError">>]
             ELSE [file |-> w.file, raised |-> "none", code |-> 0,
                   events |-> asked \o <<"write">>]

----------------------------------------------------------------------------
(* The inputs of the model *)

\* templates.py: the four built-in entries; the literal rule texts are
\* stood for by two-character payloads
LocalCatalog ==
    ("python" :> [name |-> "Python",
                  description |-> "Modern Python with type hints, docstrings, and best practices",
                  content |-> <<"p", "y">>])
    @@ ("nextjs" :> [name |-> "Next.js",
                     description |-> "Next.js 14+ with App Router, Server Components, and Tailwind CSS",
                     content |-> <<"n", "x">>])
    @@ ("flutter" :> [name |-> "Flutter",
                      description |-> "Flutter/Dart with clean architecture and best practices",
                      content |-> <<"f", "l">>])
    @@ ("java-spring" :> [name |-> "Java Spring Boot",
                          description |-> "Spring Boot 3+ with modern Java practices",
                          content |-> <<"j", "s">>])

\* Entries a remote rules.json may carry: the two documented shapes, and
\* entries with both, neither, or no name
RemoteEntries ==
    { [name |-> "Remote", description |-> "remote", content |-> <<"r">>],
      [name |-> "Remote", description |-> "remote", content |-> <<>>],
      [name |-> "Remote", description |-> "remote", url |-> "https://remote/rule"],
      [name |-> "Remote", description |-> "remote", content |-> <<"r">>,
       url |-> "https://remote/rule"],
      [name |-> "Remote", description |-> "remote"],
      [description |-> "remote", content |-> <<"r">>],
      [description |-> "remote", url |-> "https://remote/rule"] }

\* "python" collides with a local key, "rust" is remote-only
RemoteKeys == {"python", "rust"}

RemoteDicts == UNION { [S -> RemoteEntries] : S \in SUBSET RemoteKeys }

APair == JList(<<"rust", [name |-> "Remote", description |-> "remote",
                          url |-> "https://remote/rule"]>>)

\* Values of the "templates" field: a mapping, or something else
TemplatesValues ==
    { JDict(m) : m \in RemoteDicts }
    \cup { JNull, JNumber, JStr(<<>>), JStr(<<"a", "b", "c">>),
           JList(<<>>), JList(<<APair>>), JList(<<JNumber>>),
           JList(<<APair, JStr(<<"a", "b", "c">>)>>),
           JList(<<APair, JNumber>>) }

\* Outcomes of the registry GET
RegistryResponses ==
    { [kind |-> k] : k \in {"timeout", "connection", "http_error", "bad_json"} }
    \cup { [kind |-> "json", data |-> d] :
             d \in {JNull, JNumber, JList(<<>>), JDict(EmptyDict),
                    JDict("version" :> JNumber)} }
    \cup { [kind |-> "json", data |-> JDict("templates" :> t)] :
             t \in TemplatesValues }

RECURSIVE Repeat(_, _)
Repeat(c, n) == IF n = 0 THEN <<>> ELSE <<c>> \o Repeat(c, n - 1)

\* Outcomes of a content GET
DownloadOutcomes ==
    { [ok |-> FALSE, error |-> e] : e \in {"timeout", "transport", "http_error"} }
    \cup { [ok |-> TRUE, body |-> Repeat("u", n)] : n \in 0..MaxBody }

\* Outcomes of writing text to the target file
IoOutcomes(text) ==
    { [ok |-> TRUE], [ok |-> FALSE, stage |-> "open"] }
    \cup { [ok |-> FALSE, stage |-> "write", written |-> k] : k \in 0..Len(text) }

Answers == {"y", "n", ""}

NotGiven == [given |-> FALSE]
Given(s) == [given |-> TRUE, val |-> s]

\* Python truthiness of an Optional[str] argument
Truthy(arg) == arg.given /\ arg.val # ""

NameArgs == {NotGiven, Given(""), Given("python"), Given("rust")}
UrlArgs == {NotGiven, Given(""), Given("https://example.com/rule.txt")}

NoResponse == [kind |-> "none"]
NoDownload == [called |-> FALSE]

InitialFiles ==
    { [exists |-> FALSE, data |-> <<>>] }
    \cup { [exists |-> TRUE, data |-> Repeat("o", n)] : n \in 0..MaxOld }

----------------------------------------------------------------------------
(* The commands *)

Init ==
    /\ TEMPLATES = LocalCatalog
    /\ file \in InitialFiles
    /\ pc = "idle"
    /\ cmd = [command |-> "none", name |-> NotGiven, url |-> NotGiven,
              force |-> FALSE]
    /\ response = NoResponse
    /\ all_templates = EmptyDict
    /\ content = <<>>
    /\ exit_code = 0
    /\ raised = "none"
    /\ download = NoDownload
    /\ trace = <<>>
    /\ file_before = file

\* A new process starts the command c
Start(c) ==
    /\ pc \in {"idle", "done"}
    /\ cmd' = c
    /\ response' = NoResponse
    /\ all_templates' = EmptyDict
    /\ content' = <<>>
    /\ download' = NoDownload
    /\ trace' = <<>>
    /\ file_before' = file
    /\ UNCHANGED <<TEMPLATES, file>>

\* The process ends with the given status; exc is the exception that ended it
\* (typer.Exit, or an uncaught one, for which Python exits with status 1)
Finish(code, exc) ==
    /\ pc' = "done"
    /\ exit_code' = code
    /\ raised' = exc

Continue(next) ==
    /\ pc' = next
    /\ UNCHANGED <<exit_code, raised>>

\* Mutant of templates_after_update: all_templates = TEMPLATES without the
\* copy, so the update is made to the module-level dict itself
templates_after_update_aliased(local, updated) == updated

\* The module-level TEMPLATES once get_registry has updated all_templates to
\* `updated`: all_templates is bound to TEMPLATES.copy(), a new dict, so the
\* insertions do not reach TEMPLATES
templates_after_update(local, updated) == local

\* The call all_templates = get_registry() of a command, then next
CallGetRegistry(resp, next) ==
    LET r == get_registry(TEMPLATES, resp) IN
    /\ TEMPLATES' = templates_after_update(TEMPLATES, r.dict)
    /\ response' = resp
    /\ trace' = Append(trace, "registry_fetch")
    /\ IF r.raised # "none"
       THEN /\ Finish(1, r.raised)
            /\ UNCHANGED all_templates
       ELSE /\ all_templates' = r.dict
            /\ Continue(next)
    /\ UNCHANGED <<file, cmd, content, download, file_before>>

\* The argument of the download_from_url call of the running command: the
\* url option of install, or template["url"]
DownloadUrl ==
    IF Truthy(cmd.url) THEN cmd.url.val
    ELSE all_templates[cmd.name.val]["url"]

\* Mutant of CallDownload: a failed GET is tried a second time
CallDownload_retry(outcome, next) ==
    LET d == download_from_url(outcome) IN
    /\ download' = [called |-> TRUE, url |-> DownloadUrl, outcome |-> outcome]
    /\ IF d.raised = "RequestException"
       THEN /\ trace' = trace \o <<"content_fetch", "content_fetch">>
            /\ Finish(1, "Exit")
            /\ UNCHANGED content
       ELSE /\ trace' = Append(trace, "content_fetch")
            /\ content' = d.text
            /\ Continue(next)
    /\ UNCHANGED <<TEMPLATES, file, cmd, response, all_templates, file_before>>

\* The content = download_from_url(...) try block of a command, then next
CallDownload(outcome, next) ==
    LET d == download_from_url(outcome) IN
    /\ download' = [called |-> TRUE, url |-> DownloadUrl, outcome |-> outcome]
    /\ trace' = Append(trace, "content_fetch")
    /\ IF d.raised = "RequestException"
       THEN /\ Finish(1, "Exit")
            /\ UNCHANGED content
       ELSE /\ content' = d.text
            /\ Continue(next)
    /\ UNCHANGED <<TEMPLATES, file, cmd, response, all_templates, file_before>>

\* Mutant of Lookup: an unknown key ends the command with typer.Exit()
\* (code 0)
Lookup_unknown_exits_zero(fetch, use) ==
    LET name == cmd.name.val IN
    /\ IF name \notin DOMAIN all_templates
       THEN /\ Finish(0, "Exit")
            /\ UNCHANGED content
       ELSE LET template == all_templates[name] IN
            IF "url" \in DOMAIN template
            THEN /\ IF "name" \in DOMAIN template
                    THEN Continue(fetch)
                    ELSE Finish(1, "KeyError")
                 /\ UNCHANGED content
            ELSE IF "content" \in DOMAIN template
                 THEN /\ content' = template["content"]
                      /\ Continue(use)
                 ELSE /\ Finish(1, "KeyError")
                      /\ UNCHANGED content
    /\ UNCHANGED <<TEMPLATES, file, cmd, response, all_templates, download,
                   trace, file_before>>

\* The lookup of name in all_templates and the choice between the entry's
\* url and its content, shared in shape by install and show
Lookup(fetch, use) ==
    LET name == cmd.name.val IN
    /\ IF name \notin DOMAIN all_templates
       THEN /\ Finish(1, "Exit")
            /\ UNCHANGED content
       ELSE LET template == all_templates[name] IN
            IF "url" \in DOMAIN template
            THEN \* the message is formatted with template['name'] first
                 /\ IF "name" \in DOMAIN template
                    THEN Continue(fetch)
                    ELSE Finish(1, "KeyError")
                 /\ UNCHANGED content
            ELSE IF "content" \in DOMAIN template
                 THEN /\ content' = template["content"]
                      /\ Continue(use)
                 ELSE /\ Finish(1, "KeyError")
                      /\ UNCHANGED content
    /\ UNCHANGED <<TEMPLATES, file, cmd, response, all_templates, download,
                   trace, file_before>>

(* install *)

\* Mutant of InstallValidate: the check for both a name and a url is missing
InstallValidate_no_both_check(name, url, force) ==
    /\ Start([command |-> "install", name |-> name, url |-> url,
              force |-> force])
    /\ IF ~Truthy(url) /\ ~Truthy(name) THEN Finish(1, "Exit")
       ELSE IF Truthy(url)
            THEN /\ pc' = "install_url"
                 /\ exit_code' = 0
                 /\ raised' = "none"
            ELSE /\ pc' = "install_registry"
                 /\ exit_code' = 0
                 /\ raised' = "none"

\* install(name, url, force) up to its first call: the validation of the
\* arguments
InstallValidate(name, url, force) ==
    /\ Start([command |-> "install", name |-> name, url |-> url,
              force |-> force])
    /\ IF Truthy(url) /\ Truthy(name) THEN Finish(1, "Exit")
       ELSE IF ~Truthy(url) /\ ~Truthy(name) THEN Finish(1, "Exit")
       ELSE IF Truthy(url)
            THEN /\ pc' = "install_url"
                 /\ exit_code' = 0
                 /\ raised' = "none"
            ELSE /\ pc' = "install_registry"
                 /\ exit_code' = 0
                 /\ raised' = "none"

InstallUrlDownload(outcome) ==
    /\ pc = "install_url"
    /\ CallDownload(outcome, "install_write")

InstallGetRegistry(resp) ==
    /\ pc = "install_registry"
    /\ CallGetRegistry(resp, "install_lookup")

InstallLookup ==
    /\ pc = "install_lookup"
    /\ Lookup("install_download", "install_write")

InstallDownload(outcome) ==
    /\ pc = "install_download"
    /\ CallDownload(outcome, "install_write")

\* write_cursorrules(content, force) and the success message after it, which
\* in the template mode is formatted with template["name"]
InstallWrite(answer, io) ==
    /\ pc = "install_write"
    /\ LET w == write_cursorrules(content, cmd.force, file, answer, io) IN
       /\ file' = w.file
       /\ trace' = trace \o w.events
       /\ IF w.raised = "Exit" THEN Finish(w.code, "Exit")
          ELSE IF Truthy(cmd.url) THEN Finish(0, "none")
          ELSE IF "name" \in DOMAIN all_templates[cmd.name.val]
               THEN Finish(0, "none")
               ELSE Finish(1, "KeyError")
    /\ UNCHANGED <<TEMPLATES, cmd, response, all_templates, content,
                   download, file_before>>

(* list *)

ListStart ==
    /\ Start([command |-> "list", name |-> NotGiven, url |-> NotGiven,
              force |-> FALSE])
    /\ pc' = "list_registry"
    /\ exit_code' = 0
    /\ raised' = "none"

ListGetRegistry(resp) ==
    /\ pc = "list_registry"
    /\ CallGetRegistry(resp, "list_table")

\* The table rows are built from template["name"] and
\* template["description"] of every entry
ListTable ==
    /\ pc = "list_table"
    /\ IF \A k \in DOMAIN all_templates :
              {"name", "description"} \subseteq DOMAIN all_templates[k]
       THEN Finish(0, "none")
       ELSE Finish(1, "KeyError")
    /\ UNCHANGED <<TEMPLATES, file, cmd, response, all_templates, content,
                   download, trace, file_before>>

(* show *)

ShowStart(name) ==
    /\ Start([command |-> "show", name |-> Given(name), url |-> NotGiven,
              force |-> FALSE])
    /\ pc' = "show_registry"
    /\ exit_code' = 0
    /\ raised' = "none"

ShowGetRegistry(resp) ==
    /\ pc = "show_registry"
    /\ CallGetRegistry(resp, "show_lookup")

ShowLookup ==
    /\ pc = "show_lookup"
    /\ Lookup("show_download", "show_panel")

ShowDownload(outcome) ==
    /\ pc = "show_download"
    /\ CallDownload(outcome, "show_panel")

\* The panel is titled with template['name']
ShowPanel ==
    /\ pc = "show_panel"
    /\ IF "name" \in DOMAIN all_templates[cmd.name.val]
       THEN Finish(0, "none")
       ELSE Finish(1, "KeyError")
    /\ UNCHANGED <<TEMPLATES, file, cmd, response, all_templates, content,
                   download, trace, file_before>>

Next ==
    \/ \E name \in NameArgs, url \in UrlArgs, force \in BOOLEAN :
           InstallValidate(name, url, force)
    \/ \E outcome \in DownloadOutcomes : InstallUrlDownload(outcome)
    \/ \E resp \in RegistryResponses : InstallGetRegistry(resp)
    \/ InstallLookup
    \/ \E outcome \in DownloadOutcomes : InstallDownload(outcome)
    \/ \E answer \in Answers, io \in IoOutcomes(content) :
           InstallWrite(answer, io)
    \/ ListStart
    \/ \E resp \in RegistryResponses : ListGetRegistry(resp)
    \/ ListTable
    \/ \E name \in {"python", "rust"} : ShowStart(name)
    \/ \E resp \in RegistryResponses : ShowGetRegistry(resp)
    \/ ShowLookup
    \/ \E outcome \in DownloadOutcomes : ShowDownload(outcome)
    \/ ShowPanel

Spec == Init /\ [][Next]_vars

----------------------------------------------------------------------------
(* Properties *)

InTrace(e) == \E i \in 1..Len(trace) : trace[i] = e

\* The registry GET of this invocation delivered a JSON object whose
\* "templates" field is a mapping
RemoteMapping ==
    /\ response.kind = "json"
    /\ response.data.type = "dict"
    /\ "templates" \in DOMAIN response.data.map
    /\ response.data.map["templates"].type = "dict"

RemoteTemplates == response.data.map["templates"].map

\* C1: whenever the registry GET delivered a templates mapping R, the
\* registry get_registry returned has exactly the keys of TEMPLATES and R,
\* every key of R maps to R's entry and every key only in TEMPLATES maps to
\* the local entry.
C1_MergedRegistry ==
    RemoteMapping =>
        /\ DOMAIN all_templates = DOMAIN TEMPLATES \cup DOMAIN RemoteTemplates
        /\ \A k \in DOMAIN RemoteTemplates :
               all_templates[k] = RemoteTemplates[k]
        /\ \A k \in DOMAIN TEMPLATES \ DOMAIN RemoteTemplates :
               all_templates[k] = TEMPLATES[k]

\* A merge in which one remote key collides with a local key and replaces
\* its entry, and another remote key is new
C1_Witness ==
    /\ RemoteMapping
    /\ DOMAIN RemoteTemplates = {"python", "rust"}
    /\ all_templates["python"] = RemoteTemplates["python"]
    /\ all_templates["python"] # TEMPLATES["python"]
    /\ all_templates["nextjs"] = TEMPLATES["nextjs"]

\* The registry GET of this invocation failed in one of the ways the
\* fallback is specified for: no response, a non-success status, a body that
\* is not JSON, a JSON body that is not an object, no "templates" field, or a
\* "templates" field that is not a mapping
RegistryFetchFailed ==
    \/ response.kind \in {"timeout", "connection", "http_error", "bad_json"}
    \/ /\ response.kind = "json"
       /\ \/ response.data.type # "dict"
          \/ "templates" \notin DOMAIN response.data.map
          \/ response.data.map["templates"].type # "dict"

\* C2: for every failure of the registry fetch, get_registry returns the
\* local catalog exactly: no exception escapes it and nothing of the remote
\* payload is merged.
C2_FallbackToLocal ==
    RegistryFetchFailed =>
        /\ raised \notin {"TypeError", "ValueError", "RequestException"}
        /\ all_templates = TEMPLATES

PromptShown == \E i \in 1..Len(trace) : trace[i] \in Prompts

\* The running or last command is install in the template mode / the URL mode
TemplateMode == cmd.command = "install" /\ Truthy(cmd.name) /\ ~Truthy(cmd.url)
UrlMode == cmd.command = "install" /\ Truthy(cmd.url) /\ ~Truthy(cmd.name)

\* C3: an install invocation that supplies (passes a non-empty value for)
\* both a template key and a URL, or for neither, ends with exit code 1
\* without any network call, prompt or write.
C3_ValidationAborts ==
    (/\ cmd.command = "install"
     /\ \/ Truthy(cmd.name) /\ Truthy(cmd.url)
        \/ ~Truthy(cmd.name) /\ ~Truthy(cmd.url))
    => /\ pc = "done"
       /\ exit_code = 1
       /\ trace = <<>>
       /\ file = file_before

\* Both a key and a URL were given while a target file exists
C3_Witness ==
    /\ cmd.command = "install"
    /\ Truthy(cmd.name) /\ Truthy(cmd.url)
    /\ cmd.force
    /\ file_before.exists
    /\ pc = "done" /\ exit_code = 1

\* C4: an install by a key that is not in the merged registry, whatever the
\* registry GET produced, ends with exit code 1, performs no content fetch
\* and leaves the target file as it was.
C4_UnknownKeyAborts ==
    (/\ TemplateMode
     /\ response # NoResponse
     /\ cmd.name.val \notin DOMAIN all_templates)
    => /\ pc \in {"install_lookup", "done"}
       /\ pc = "done" => exit_code = 1
       /\ ~download.called
       /\ ~InTrace("content_fetch")
       /\ ~InTrace("write")
       /\ file = file_before

\* An unknown key was refused after a merge of a remote mapping, with a
\* target file present and force set
C4_Witness ==
    /\ TemplateMode
    /\ RemoteMapping
    /\ raised = "Exit"
    /\ cmd.name.val \notin DOMAIN all_templates
    /\ cmd.force
    /\ file_before.exists
    /\ pc = "done" /\ exit_code = 1

\* C5: when the overwrite prompt of an install is answered "no" or with the
\* empty default, nothing is written: the target file is unchanged and the
\* command ends with exit code 0.  (The prompt is shown only with force
\* unset and the target file present.)
C5_DeclineKeepsFile ==
    (/\ cmd.command = "install"
     /\ InTrace("prompt_n") \/ InTrace("prompt_empty"))
    => /\ ~cmd.force
       /\ file_before.exists
       /\ pc = "done"
       /\ exit_code = 0
       /\ ~InTrace("write")
       /\ file = file_before

\* The empty answer was given for content that differs from the file
C5_Witness ==
    /\ cmd.command = "install"
    /\ InTrace("prompt_empty")
    /\ file_before.exists
    /\ file_before.data # content
    /\ file = file_before
    /\ pc = "done" /\ exit_code = 0

\* The success message of install can be formatted: the URL mode needs
\* nothing, the template mode reads template["name"]
SuccessMessageOk ==
    UrlMode \/ "name" \in DOMAIN all_templates[cmd.name.val]

C7_FetchFailureAborts ==
    (/\ cmd.command = "install"
     /\ download.called
     /\ ~download.outcome.ok)
    => /\ pc = "done"
       /\ exit_code = 1
       /\ ~PromptShown
       /\ ~InTrace("write")
       /\ file = file_before

\* The content GET of a URL-backed registry entry failed, with force set and
\* a target file present
C7_Witness ==
    /\ TemplateMode
    /\ download.called
    /\ ~download.outcome.ok
    /\ cmd.force
    /\ file_before.exists
    /\ pc = "done" /\ exit_code = 1

\* C8: after an install the target file holds the complete new content or is
\* exactly as before; when write_text fails, the command ends with exit code
\* 1 and a target file that existed has not been truncated or partly written.
C8_AtomicWrite ==
    (cmd.command = "install" /\ pc = "done")
    => /\ \/ file = file_before
          \/ file = [exists |-> TRUE, data |-> content]
       /\ InTrace("OSError")
              => /\ exit_code = 1
                 /\ file_before.exists => file = file_before

\* C9: a successful install of a key whose merged-registry entry carries
\* inline content C leaves a target file whose contents equal C.
C9_InlineRoundTrip ==
    (/\ TemplateMode
     /\ pc = "done" /\ exit_code = 0 /\ raised = "none"
     /\ cmd.name.val \in DOMAIN all_templates
     /\ "content" \in DOMAIN all_templates[cmd.name.val])
    => file = [exists |-> TRUE,
               data |-> all_templates[cmd.name.val]["content"]]

\* C10: every entry of a registry returned by get_registry carries exactly
\* one of inline content and a source URL.
C10_ExactlyOneSource ==
    \A k \in DOMAIN all_templates :
        ("content" \in DOMAIN all_templates[k])
            # ("url" \in DOMAIN all_templates[k])

\* install in the template mode or show has looked its key up in the
\* registry and found it
EntrySelected ==
    /\ TemplateMode \/ cmd.command = "show"
    /\ pc \notin {"install_registry", "install_lookup",
                  "show_registry", "show_lookup"}
    /\ cmd.name.val \in DOMAIN all_templates

SelectedEntry == all_templates[cmd.name.val]

\* C11: in install and show, whenever the selected entry has inline content,
\* that content is what the command uses and no content GET is made; a
\* content GET is made only for an entry with a url and no inline content.
C11_InlineContentDirect ==
    EntrySelected =>
        /\ "content" \in DOMAIN SelectedEntry
               => /\ ~download.called
                  /\ ~InTrace("content_fetch")
                  /\ content = SelectedEntry["content"]
        /\ download.called
               => /\ "url" \in DOMAIN SelectedEntry
                  /\ "content" \notin DOMAIN SelectedEntry

\* How often the event e occurs in the trace of this invocation
Count(e) == Cardinality({i \in 1..Len(trace) : trace[i] = e})

NetworkCalls == {"registry_fetch", "content_fetch"}

\* C12: an invocation makes at most one registry GET, at most one content
\* GET and at most one write_text call, the registry GET before the content
\* GET and no network call after the write; only install writes; an install
\* in the URL mode never makes the registry GET and makes exactly one network
\* call, the GET of the url it was given.
C12_CallOrder ==
    /\ Count("registry_fetch") <= 1
    /\ Count("content_fetch") <= 1
    /\ Count("write") <= 1
    /\ \A i, j \in 1..Len(trace) :
           i < j => /\ ~(trace[i] = "content_fetch" /\ trace[j] = "registry_fetch")
                    /\ ~(trace[i] = "write" /\ trace[j] \in NetworkCalls)
    /\ cmd.command # "install" => ~InTrace("write")
    /\ UrlMode => /\ ~InTrace("registry_fetch")
                  /\ response = NoResponse
                  /\ pc # "install_url"
                         => /\ Count("content_fetch") = 1
                            /\ download.called
                            /\ download.url = cmd.url.val

\* A template install that made both network calls and then wrote the file
C12_Witness ==
    /\ TemplateMode
    /\ pc = "done" /\ exit_code = 0
    /\ trace = <<"registry_fetch", "content_fetch", "write">>
    /\ download.url = SelectedEntry["url"]

\* C13: whatever commands have run and whatever the registry GETs
\* delivered, TEMPLATES has the keys and entries it had at process start.
C13_LocalCatalogUnchanged == TEMPLATES = LocalCatalog

\* A list command merged a remote entry over a local key and added a new
\* key, and TEMPLATES shows neither
C13_Witness ==
    /\ cmd.command = "list"
    /\ pc = "done"
    /\ RemoteMapping
    /\ "rust" \in DOMAIN all_templates
    /\ all_templates["python"] # LocalCatalog["python"]
    /\ TEMPLATES["python"] = LocalCatalog["python"]
    /\ "rust" \notin DOMAIN TEMPLATES

====
